---------------------------- MODULE Spec2Model ----------------------------
(***************************************************************************)
(* Model of src/metrics.py: class Metrics, a registry of Prometheus        *)
(* metrics partitioned by kind, with duplicate / missing name checks,      *)
(* validation of histogram buckets and summary objectives, and forwarding  *)
(* of labelled and unlabelled mutations to the underlying metric objects.  *)
(*                                                                         *)
(* The metric objects themselves (Counter, Gauge, Histogram, Summary) and  *)
(* start_http_server belong to the imported library, whose code is not     *)
(* part of the repository; they are modelled by the contract spec.md       *)
(* gives them (the operators under "Collaborator").                       *)
(***************************************************************************)
EXTENDS Integers, Sequences, FiniteSets, TLC

(* ------------------------------ bounds --------------------------------- *)
\* at most this many calls are made, the constructor's included
MaxCalls == 5

(* --------------------------- Python values ----------------------------- *)
\* A Python scalar: its type and, for numbers, its integral value.
PyInt(v)   == [type |-> "int",   val |-> v]
PyBool(b)  == [type |-> "bool",  val |-> IF b THEN 1 ELSE 0]
PyFloat(v) == [type |-> "float", val |-> v]
PyStr      == [type |-> "str",   val |-> 0]
PyNone     == [type |-> "NoneType", val |-> 0]

\* isinstance(v, int): bool is a subclass of int
IsInstanceInt(v) == v.type \in {"int", "bool"}
\* isinstance(v, (int, float))
IsInstanceNumber(v) == v.type \in {"int", "bool", "float"}

\* Optional[dict]: None, or a dict given as its set of <<key, value>> items
NoneDict == [none |-> TRUE, items |-> {}]
Dict(items) == [none |-> FALSE, items |-> items]
Keys(d) == {it[1] : it \in d.items}
\* truth value of an Optional[dict] / Optional[list]: None and empty are false
TruthyDict(d) == ~d.none /\ d.items # {}
NoneList == [none |-> TRUE, elems |-> <<>>]
List(elems) == [none |-> FALSE, elems |-> elems]
TruthyList(l) == ~l.none /\ Len(l.elems) > 0

(* ------------------------------ inputs --------------------------------- *)
Kinds == {"counter", "gauge", "histogram", "summary"}
Names == {"x", "y"}
\* ports: -1, 0, 2, True, False, 2.0, "2", None
PortInputs == {PyInt(-1), PyInt(0), PyInt(2), PyBool(TRUE), PyBool(FALSE),
               PyFloat(2), PyStr, PyNone}
\* labels given to define_*: None, {}, {"method": ""}
DefLabelInputs == {NoneDict, Dict({}), Dict({<<"method", "">>})}
\* labels given to a mutation: None, {"method": "GET"}, {"method": "POST"}
MutLabelInputs == {NoneDict, Dict({<<"method", "GET">>}), Dict({<<"method", "POST">>})}
\* buckets: None, [], [1, 2.5], [True], [1, "a"]
BucketInputs == {NoneList, List(<<>>), List(<<PyInt(1), PyFloat(2)>>), List(<<PyBool(TRUE)>>),
                 List(<<PyInt(1), PyStr>>)}
\* objectives: None, {}, {0.5: 0.05}, {0.5: "bad"}, {"q": 0.05}
ObjectiveInputs == {NoneDict, Dict({}), Dict({<<PyFloat(0), PyFloat(0)>>}),
                    Dict({<<PyFloat(0), PyStr>>}), Dict({<<PyStr, PyFloat(0)>>})}
\* the amount argument: omitted (the default applies) or given
Omitted == [given |-> FALSE, val |-> 0]
Given(v) == [given |-> TRUE, val |-> v]
AmountInputs == {Omitted, Given(2), Given(-1)}
ValueInputs == {1, 2}

(* ------------------------------- state --------------------------------- *)
VARIABLES
    constructed,  \* a Metrics object exists
    port,         \* self.port
    metrics,      \* self.metrics: kind -> (name -> handle of the metric object)
    objects,      \* the metric objects of the library: handle -> object
    bound,        \* ports held by a listener (of this process or another)
    last,         \* how the last call ended: the exception it raised, if any
    ncalls,       \* history: the number of calls made so far
    ledger,       \* history: <<kind, name, series>> -> what the successful mutations addressed to it add up to
    tpc,          \* per thread: where it is in its define_* call
    targs,        \* per thread: the arguments of its call
    tobj,         \* per thread: the metric object it has constructed and not yet stored
    tresult       \* per thread: how its last call ended

tvars == <<tpc, targs, tobj, tresult>>
vars == <<constructed, port, metrics, objects, bound, last, ncalls, ledger, tpc, targs, tobj, tresult>>

Threads == {1, 2}

EmptyMap == [n \in {} |-> 0]
Put(m, k, v) == [n \in DOMAIN m \cup {k} |-> IF n = k THEN v ELSE m[n]]

Returned == [exc |-> "none", msg |-> "returned"]
Raised(exc, msg) == [exc |-> exc, msg |-> msg]


(* ---------------------------- Collaborator ----------------------------- *)
\* the value a new series starts from
Zero(kind) == IF kind \in {"counter", "gauge"} THEN 0 ELSE [count |-> 0, sum |-> 0]

\* the label names a constructor makes of its labelnames argument: None is
\* taken as no label names
DeclaredNames(labelnames) == IF labelnames.none THEN {} ELSE labelnames.names

\* Counter / Gauge / Histogram / Summary (name, description, labelnames=...):
\* a new metric object; without label names it has its single series at once
NewMetric(kind, labelnames) ==
    [kind |-> kind, labelnames |-> DeclaredNames(labelnames),
     series |-> IF DeclaredNames(labelnames) = {} THEN [k \in {{}} |-> Zero(kind)]
                ELSE EmptyMap]

\* metric.labels(**labels): the child series of these label values, created
\* on first use; refused when the keys are not the declared label names
LabelsOk(obj, labels) == obj.labelnames # {} /\ Keys(labels) = obj.labelnames
WithChild(obj, key) ==
    IF key \in DOMAIN obj.series THEN obj
    ELSE [obj EXCEPT !.series = Put(@, key, Zero(obj.kind))]

\* inc / dec / observe on one series: accepted or not, and the new value
Accepts(kind, method, amt) == ~(kind = "counter" /\ amt < 0)
Apply(method, old, amt) ==
    CASE method = "inc" -> old + amt
      [] method = "dec" -> old - amt
      [] method = "observe" -> [count |-> old.count + 1, sum |-> old.sum + amt]

\* start_http_server(port=p) raises when the port is already held
BindFails(p) == p \in bound

(* ------------------------------- Facade -------------------------------- *)
\* the value passed as labelnames: None, or the keys of a dict
NoneNames == [none |-> TRUE, names |-> {}]
KeysView(names) == [none |-> FALSE, names |-> names]
\* labelnames=labels.keys() if labels else None
LabelNamesArg(labels) == IF TruthyDict(labels) THEN KeysView(Keys(labels)) ELSE NoneNames

\* the port test letting 0 through
PortRejected_zero(p) == ~IsInstanceInt(p) \/ p.val < 0

\* __init__: not isinstance(port, int) or port <= 0
PortRejected(p) == ~IsInstanceInt(p) \/ p.val <= 0

\* define_histogram: buckets and not all(isinstance(b, (int, float)) for b in buckets)
BucketsRejected(buckets) ==
    TruthyList(buckets) /\ ~(\A i \in 1..Len(buckets.elems) : IsInstanceNumber(buckets.elems[i]))

\* define_summary: objectives and not all(isinstance(k, ...) and isinstance(v, ...) for k, v in items)
ObjectivesRejected(objectives) ==
    TruthyDict(objectives) /\
    ~(\A it \in objectives.items : IsInstanceNumber(it[1]) /\ IsInstanceNumber(it[2]))

\* name in self.metrics[kind]
Has(kind, name) == name \in DOMAIN metrics[kind]

\* the series a call with these labels addresses
SeriesKey(labels) == IF TruthyDict(labels) THEN labels.items ELSE {}

\* the forwarding with the child series chosen by the label names, not the values
Forward_byNames(obj, method, amt, labels) ==
    LET key == {<<it[1], it[1]>> : it \in labels.items} IN
    IF TruthyDict(labels)
    THEN IF ~LabelsOk(obj, labels) THEN [ok |-> FALSE, obj |-> obj]
         ELSE LET o == WithChild(obj, key) IN
              IF ~Accepts(obj.kind, method, amt) THEN [ok |-> FALSE, obj |-> o]
              ELSE [ok |-> TRUE, obj |-> [o EXCEPT !.series[key] = Apply(method, @, amt)]]
    ELSE IF obj.labelnames # {} \/ ~Accepts(obj.kind, method, amt)
         THEN [ok |-> FALSE, obj |-> obj]
         ELSE [ok |-> TRUE, obj |-> [obj EXCEPT !.series[{}] = Apply(method, @, amt)]]

\* if labels: metric.labels(**labels).m(amount) else: metric.m(amount)
\* gives whether the call returned and the metric object afterwards
Forward(obj, method, amt, labels) ==
    IF TruthyDict(labels)
    THEN IF ~LabelsOk(obj, labels) THEN [ok |-> FALSE, obj |-> obj]
         ELSE LET o == WithChild(obj, labels.items) IN
              IF ~Accepts(obj.kind, method, amt) THEN [ok |-> FALSE, obj |-> o]
              ELSE [ok |-> TRUE,
                    obj |-> [o EXCEPT !.series[labels.items] = Apply(method, @, amt)]]
    ELSE IF obj.labelnames # {} \/ ~Accepts(obj.kind, method, amt)
         THEN [ok |-> FALSE, obj |-> obj]
         ELSE [ok |-> TRUE, obj |-> [obj EXCEPT !.series[{}] = Apply(method, @, amt)]]

\* the amount dropped: the metric object is called with its own default, 1
AmountArg_dropped(a) == 1

\* the amount a call forwards: the given one, or the default 1
AmountArg(a) == IF a.given THEN a.val ELSE 1

\* the identity of a new metric object: what it was made for, and which
\* object made for that it is
NewHandle(kind, name) ==
    <<kind, name, 1 + Cardinality({h \in DOMAIN objects : h[1] = kind /\ h[2] = name})>>

NoArgs == [kind |-> "none", name |-> "none", labels |-> NoneDict,
           buckets |-> NoneList, objectives |-> NoneDict]
NoObject == <<"none", "none", 0>>
ThreadsIdle ==
    /\ tpc = [t \in Threads |-> "idle"]
    /\ targs = [t \in Threads |-> NoArgs]
    /\ tobj = [t \in Threads |-> NoObject]
    /\ tresult = [t \in Threads |-> Returned]

\* one more call is made
Counted == ncalls < MaxCalls /\ ncalls' = ncalls + 1

Init ==
    /\ constructed = FALSE
    /\ port = PyNone
    /\ metrics = EmptyMap
    /\ objects = EmptyMap
    /\ bound = {}
    /\ last = Returned
    /\ ncalls = 0
    /\ ledger = EmptyMap
    /\ ThreadsIdle

\* Metrics(port)
Metrics_init(p) ==
    /\ ~constructed
    /\ Counted
    /\ IF PortRejected(p)
       THEN /\ last' = Raised("ValueError", "Port must be a positive integer.")
            /\ UNCHANGED <<constructed, port, metrics>>
       ELSE /\ constructed' = TRUE
            /\ port' = p
            /\ metrics' = [k \in Kinds |-> EmptyMap]
            /\ last' = Returned
    /\ UNCHANGED <<objects, bound, ledger, tvars>>

\* another listener takes the port this registry is configured with
OtherListenerBinds ==
    /\ constructed
    /\ Counted
    /\ port.val \notin bound
    /\ bound' = bound \cup {port.val}
    /\ UNCHANGED <<constructed, port, metrics, objects, last, ledger, tvars>>

\* initiate_http_server swallowing the failure to start
initiate_http_server_swallow ==
    /\ constructed
    /\ Counted
    /\ IF BindFails(port.val)
       THEN /\ last' = Returned
            /\ UNCHANGED bound
       ELSE /\ bound' = bound \cup {port.val}
            /\ last' = Returned
    /\ UNCHANGED <<constructed, port, metrics, objects, ledger, tvars>>

\* initiate_http_server()
initiate_http_server ==
    /\ constructed
    /\ Counted
    /\ IF BindFails(port.val)
       THEN /\ last' = Raised("RuntimeError", "Failed to start HTTP server")
            /\ UNCHANGED bound
       ELSE /\ bound' = bound \cup {port.val}
            /\ last' = Returned
    /\ UNCHANGED <<constructed, port, metrics, objects, ledger, tvars>>

\* the registration replacing the kind's mapping by one with the new name only
Register_replace(kind, name, labels) ==
    /\ objects' = Put(objects, NewHandle(kind, name), NewMetric(kind, LabelNamesArg(labels)))
    /\ metrics' = [metrics EXCEPT ![kind] = Put(EmptyMap, name, NewHandle(kind, name))]
    /\ ledger' = IF NewMetric(kind, LabelNamesArg(labels)).labelnames = {}
                 THEN Put(ledger, <<kind, name, {}>>, Zero(kind)) ELSE ledger
    /\ last' = Returned

\* self.metrics[kind][name] = <new metric object>
Register(kind, name, labels) ==
    /\ objects' = Put(objects, NewHandle(kind, name), NewMetric(kind, LabelNamesArg(labels)))
    /\ metrics' = [metrics EXCEPT ![kind] = Put(@, name, NewHandle(kind, name))]
    /\ ledger' = IF NewMetric(kind, LabelNamesArg(labels)).labelnames = {}
                 THEN Put(ledger, <<kind, name, {}>>, Zero(kind)) ELSE ledger
    /\ last' = Returned

Rejected(exc, msg) ==
    /\ last' = Raised(exc, msg)
    /\ UNCHANGED <<metrics, objects, ledger>>

\* define_counter without the membership test: the name is bound anew
define_counter_overwrite(name, labels) ==
    /\ constructed
    /\ Counted
    /\ Register("counter", name, labels)
    /\ UNCHANGED <<constructed, port, bound, tvars>>

\* define_counter(name, description, labels)
define_counter(name, labels) ==
    /\ constructed
    /\ Counted
    /\ IF Has("counter", name) THEN Rejected("ValueError", "already exists")
       ELSE Register("counter", name, labels)
    /\ UNCHANGED <<constructed, port, bound, tvars>>

\* define_gauge refusing a name that any kind has
define_gauge_global(name, labels) ==
    /\ constructed
    /\ Counted
    /\ IF \E k \in Kinds : Has(k, name) THEN Rejected("ValueError", "already exists")
       ELSE Register("gauge", name, labels)
    /\ UNCHANGED <<constructed, port, bound, tvars>>

\* define_gauge(name, description, labels)
define_gauge(name, labels) ==
    /\ constructed
    /\ Counted
    /\ IF Has("gauge", name) THEN Rejected("ValueError", "already exists")
       ELSE Register("gauge", name, labels)
    /\ UNCHANGED <<constructed, port, bound, tvars>>

\* define_histogram checking the buckets after it has made and bound the histogram
define_histogram_late(name, buckets, labels) ==
    /\ constructed
    /\ Counted
    /\ IF Has("histogram", name) THEN Rejected("ValueError", "already exists")
       ELSE IF BucketsRejected(buckets)
            THEN /\ objects' = Put(objects, NewHandle("histogram", name),
                                   NewMetric("histogram", LabelNamesArg(labels)))
                 /\ metrics' = [metrics EXCEPT !["histogram"] =
                                    Put(@, name, NewHandle("histogram", name))]
                 /\ last' = Raised("ValueError", "Buckets must be a list of numbers.")
                 /\ UNCHANGED ledger
       ELSE Register("histogram", name, labels)
    /\ UNCHANGED <<constructed, port, bound, tvars>>

\* define_histogram(name, description, buckets, labels)
define_histogram(name, buckets, labels) ==
    /\ constructed
    /\ Counted
    /\ IF Has("histogram", name) THEN Rejected("ValueError", "already exists")
       ELSE IF BucketsRejected(buckets) THEN Rejected("ValueError", "Buckets must be a list of numbers.")
       ELSE Register("histogram", name, labels)
    /\ UNCHANGED <<constructed, port, bound, tvars>>

\* define_summary(name, description, objectives, labels)
define_summary(name, objectives, labels) ==
    /\ constructed
    /\ Counted
    /\ IF Has("summary", name) THEN Rejected("ValueError", "already exists")
       ELSE IF ObjectivesRejected(objectives) THEN Rejected("ValueError", "Objectives must be a dictionary of numbers.")
       ELSE Register("summary", name, labels)
    /\ UNCHANGED <<constructed, port, bound, tvars>>

\* history: what a successful call of a mutation operation adds to a series,
\* by the operation called and the amount it was called with (default 1)
Expected(op, old, arg) ==
    LET amt == IF arg.given THEN arg.val ELSE 1 IN
    CASE op \in {"increment_counter", "increment_gauge"} -> old + amt
      [] op = "decrement_gauge" -> old - amt
      [] op \in {"record_histogram", "record_summary"} ->
            [count |-> old.count + 1, sum |-> old.sum + amt]

\* the method of the metric object each operation calls
MethodOf(op) ==
    CASE op \in {"increment_counter", "increment_gauge"} -> "inc"
      [] op = "decrement_gauge" -> "dec"
      [] op \in {"record_histogram", "record_summary"} -> "observe"

\* the mutation body returning quietly for a missing name
Mutate_silent(op, kind, name, arg, labels) ==
    /\ constructed
    /\ Counted
    /\ IF ~Has(kind, name)
       THEN /\ last' = Returned
            /\ UNCHANGED <<metrics, objects, ledger>>
       ELSE LET h == metrics[kind][name]
                r == Forward(objects[h], MethodOf(op), AmountArg(arg), labels)
            IN  /\ objects' = [objects EXCEPT ![h] = r.obj]
                /\ last' = IF r.ok THEN Returned ELSE Raised("LibraryError", "raised by the metric object")
                /\ ledger' = IF r.ok
                             THEN LET key == <<kind, name, SeriesKey(labels)>>
                                      old == IF key \in DOMAIN ledger THEN ledger[key] ELSE Zero(kind)
                                  IN  Put(ledger, key, Expected(op, old, arg))
                             ELSE ledger
                /\ UNCHANGED metrics
    /\ UNCHANGED <<constructed, port, bound, tvars>>

\* the common body of the five mutation operations
Mutate(op, kind, name, arg, labels) ==
    /\ constructed
    /\ Counted
    /\ IF ~Has(kind, name) THEN Rejected("KeyError", "does not exist")
       ELSE LET h == metrics[kind][name]
                r == Forward(objects[h], MethodOf(op), AmountArg(arg), labels)
            IN  /\ objects' = [objects EXCEPT ![h] = r.obj]
                /\ last' = IF r.ok THEN Returned ELSE Raised("LibraryError", "raised by the metric object")
                /\ ledger' = IF r.ok
                             THEN LET key == <<kind, name, SeriesKey(labels)>>
                                      old == IF key \in DOMAIN ledger THEN ledger[key] ELSE Zero(kind)
                                  IN  Put(ledger, key, Expected(op, old, arg))
                             ELSE ledger
                /\ UNCHANGED metrics
    /\ UNCHANGED <<constructed, port, bound, tvars>>

\* increment_counter(name, amount=1, labels=None)
increment_counter(name, amount, labels) ==
    Mutate("increment_counter", "counter", name, amount, labels)

\* increment_gauge(name, amount=1, labels=None)
increment_gauge(name, amount, labels) ==
    Mutate("increment_gauge", "gauge", name, amount, labels)

\* decrement_gauge(name, amount=1, labels=None)
decrement_gauge(name, amount, labels) ==
    Mutate("decrement_gauge", "gauge", name, amount, labels)

\* record_histogram(name, value, labels=None)
record_histogram(name, value, labels) ==
    Mutate("record_histogram", "histogram", name, Given(value), labels)

\* record_summary(name, value, labels=None)
record_summary(name, value, labels) ==
    Mutate("record_summary", "summary", name, Given(value), labels)

Next ==
    \/ \E p \in PortInputs : Metrics_init(p)
    \/ OtherListenerBinds
    \/ initiate_http_server
    \/ \E n \in Names, l \in DefLabelInputs : define_counter(n, l)
    \/ \E n \in Names, l \in DefLabelInputs : define_gauge(n, l)
    \/ \E n \in Names, b \in BucketInputs, l \in DefLabelInputs : define_histogram(n, b, l)
    \/ \E n \in Names, o \in ObjectiveInputs, l \in DefLabelInputs : define_summary(n, o, l)
    \/ \E n \in Names, a \in AmountInputs, l \in MutLabelInputs : increment_counter(n, a, l)
    \/ \E n \in Names, a \in AmountInputs, l \in MutLabelInputs : increment_gauge(n, a, l)
    \/ \E n \in Names, a \in AmountInputs, l \in MutLabelInputs : decrement_gauge(n, a, l)
    \/ \E n \in Names, v \in ValueInputs, l \in MutLabelInputs : record_histogram(n, v, l)
    \/ \E n \in Names, v \in ValueInputs, l \in MutLabelInputs : record_summary(n, v, l)

Spec == Init /\ [][Next]_vars


(* ------------- define_* called from two threads at once ---------------- *)
\* The registry takes no lock: between the membership test of a define_*
\* call, its constructor call and its assignment into the mapping, the
\* other thread may run.  Each thread makes one define_* call; mutations
\* are made alongside.

InitConc ==
    /\ constructed = TRUE
    /\ port = PyInt(2)
    /\ metrics = [k \in Kinds |-> EmptyMap]
    /\ objects = EmptyMap
    /\ bound = {}
    /\ last = Returned
    /\ ncalls = 1
    /\ ledger = EmptyMap
    /\ ThreadsIdle

\* thread t enters define_<kind>(name, description, ...)
ThreadCall(t, kind, name, buckets, objectives) ==
    /\ tpc[t] = "idle"
    /\ Counted
    /\ tpc' = [tpc EXCEPT ![t] = "check"]
    /\ targs' = [targs EXCEPT ![t] = [kind |-> kind, name |-> name, labels |-> NoneDict,
                                      buckets |-> buckets, objectives |-> objectives]]
    /\ UNCHANGED <<constructed, port, metrics, objects, bound, last, ledger, tobj, tresult>>

\* if name in self.metrics[kind]: raise ...; then the check of buckets / objectives
ThreadCheck(t) ==
    /\ tpc[t] = "check"
    /\ LET a == targs[t]
           msg == IF Has(a.kind, a.name) THEN "already exists"
                  ELSE IF a.kind = "histogram" /\ BucketsRejected(a.buckets)
                       THEN "Buckets must be a list of numbers."
                  ELSE IF a.kind = "summary" /\ ObjectivesRejected(a.objectives)
                       THEN "Objectives must be a dictionary of numbers."
                  ELSE "none"
       IN  IF msg # "none"
           THEN /\ tresult' = [tresult EXCEPT ![t] = Raised("ValueError", msg)]
                /\ tpc' = [tpc EXCEPT ![t] = "done"]
                /\ UNCHANGED targs
           ELSE /\ tpc' = [tpc EXCEPT ![t] = "construct"]
                /\ UNCHANGED <<tresult, targs>>
    /\ UNCHANGED <<constructed, port, metrics, objects, bound, last, ncalls, ledger, tobj>>

\* the right-hand side of the assignment: Counter(name, description, labelnames=...)
ThreadConstruct(t) ==
    /\ tpc[t] = "construct"
    /\ LET a == targs[t] IN
       /\ objects' = Put(objects, NewHandle(a.kind, a.name), NewMetric(a.kind, LabelNamesArg(a.labels)))
       /\ tobj' = [tobj EXCEPT ![t] = NewHandle(a.kind, a.name)]
    /\ tpc' = [tpc EXCEPT ![t] = "store"]
    /\ UNCHANGED <<constructed, port, metrics, bound, last, ncalls, ledger, targs, tresult>>

\* self.metrics[kind][name] = <the object>, and the call returns
ThreadStore(t) ==
    /\ tpc[t] = "store"
    /\ metrics' = [metrics EXCEPT ![targs[t].kind] = Put(@, targs[t].name, tobj[t])]
    /\ tresult' = [tresult EXCEPT ![t] = Returned]
    /\ tobj' = [tobj EXCEPT ![t] = NoObject]
    /\ tpc' = [tpc EXCEPT ![t] = "done"]
    /\ UNCHANGED <<constructed, port, objects, bound, last, ncalls, ledger, targs>>

NextConc ==
    \/ \E t \in Threads, n \in Names : ThreadCall(t, "counter", n, NoneList, NoneDict)
    \/ \E t \in Threads, n \in Names : ThreadCall(t, "gauge", n, NoneList, NoneDict)
    \/ \E t \in Threads, n \in Names, b \in {NoneList, List(<<PyInt(1), PyStr>>)} :
            ThreadCall(t, "histogram", n, b, NoneDict)
    \/ \E t \in Threads, n \in Names, o \in {NoneDict, Dict({<<PyFloat(0), PyStr>>})} :
            ThreadCall(t, "summary", n, NoneList, o)
    \/ \E t \in Threads : ThreadCheck(t)
    \/ \E t \in Threads : ThreadConstruct(t)
    \/ \E t \in Threads : ThreadStore(t)
    \/ \E n \in Names : increment_counter(n, Omitted, NoneDict)
    \/ \E n \in Names : increment_gauge(n, Omitted, NoneDict)
    \/ \E n \in Names : decrement_gauge(n, Omitted, NoneDict)
    \/ \E n \in Names : record_histogram(n, 1, NoneDict)
    \/ \E n \in Names : record_summary(n, 1, NoneDict)

SpecConc == InitConc /\ [][NextConc]_vars


(* ------------------------------ properties ----------------------------- *)
\* a value of a Python number type (bool is one: True is the int 1)
Numeric(v) == v.type \in {"int", "bool", "float"}
\* the name is bound in the mapping of the kind
Bound(kind, name) == kind \in DOMAIN metrics /\ name \in DOMAIN metrics[kind]
\* the value of a series of the metric bound to the name
SeriesOf(kind, name) == objects[metrics[kind][name]].series
Unlabelled(kind, name) == objects[metrics[kind][name]].labelnames = {}

\* the call raised ValueError for a name that exists already and changed nothing
DuplicateRejected ==
    /\ last' = Raised("ValueError", "already exists")
    /\ metrics' = metrics
    /\ objects' = objects
\* every bound name is bound to the first metric object made for it
FirstHandles ==
    \A k \in DOMAIN metrics : \A n \in DOMAIN metrics[k] : metrics[k][n] = <<k, n, 1>>

\* C1: a define_K(n, ...) call made while n is in K's mapping raises
\* ValueError and leaves the four mappings and every metric object with its
\* accumulated values as they were; n stays bound to the object of its first
\* definition, which is the one later mutations reach.
C1_DuplicateDefine ==
    /\ FirstHandles
    /\ \A n \in Names :
        /\ Bound("counter", n) =>
              \A l \in DefLabelInputs : ~ENABLED (define_counter(n, l) /\ ~DuplicateRejected)
        /\ Bound("gauge", n) =>
              \A l \in DefLabelInputs : ~ENABLED (define_gauge(n, l) /\ ~DuplicateRejected)
        /\ Bound("histogram", n) =>
              \A b \in BucketInputs, l \in DefLabelInputs :
                  ~ENABLED (define_histogram(n, b, l) /\ ~DuplicateRejected)
        /\ Bound("summary", n) =>
              \A o \in ObjectiveInputs, l \in DefLabelInputs :
                  ~ENABLED (define_summary(n, o, l) /\ ~DuplicateRejected)

\* a duplicate definition was just refused while a labelled counter holds an
\* accumulated value
C1_Witness ==
    /\ last = Raised("ValueError", "already exists")
    /\ \E n \in Names : /\ Bound("counter", n)
                        /\ ~Unlabelled("counter", n)
                        /\ \E key \in DOMAIN SeriesOf("counter", n) :
                                SeriesOf("counter", n)[key] >= 1

\* the call returned and bound the name, in this kind only, to a new object of its own
DefinedIn(kind, n) ==
    /\ last' = Returned
    /\ n \in DOMAIN metrics'[kind]
    /\ metrics'[kind][n] \in DOMAIN objects' \ DOMAIN objects
    /\ \A k \in Kinds \ {kind} : metrics'[k] = metrics[k]
BoundElsewhere(kind, n) == ~Bound(kind, n) /\ \E k \in Kinds \ {kind} : Bound(k, n)
ValidBuckets(b) == b.none \/ \A i \in 1..Len(b.elems) : Numeric(b.elems[i])
ValidObjectives(o) == o.none \/ \A it \in o.items : Numeric(it[1]) /\ Numeric(it[2])

\* C2: uniqueness of names is per kind: when n is bound in another kind but
\* not in K, define_K(n, ...) with valid buckets / objectives returns and binds
\* n in K's mapping to a new object, distinct from the one n has in the other
\* kind, whose binding stays.
C2_PerKindNames ==
    \A n \in Names :
        /\ BoundElsewhere("counter", n) =>
              \A l \in DefLabelInputs : ~ENABLED (define_counter(n, l) /\ ~DefinedIn("counter", n))
        /\ BoundElsewhere("gauge", n) =>
              \A l \in DefLabelInputs : ~ENABLED (define_gauge(n, l) /\ ~DefinedIn("gauge", n))
        /\ BoundElsewhere("histogram", n) =>
              \A b \in BucketInputs, l \in DefLabelInputs :
                  ValidBuckets(b) =>
                      ~ENABLED (define_histogram(n, b, l) /\ ~DefinedIn("histogram", n))
        /\ BoundElsewhere("summary", n) =>
              \A o \in ObjectiveInputs, l \in DefLabelInputs :
                  ValidObjectives(o) =>
                      ~ENABLED (define_summary(n, o, l) /\ ~DefinedIn("summary", n))

\* the same name is bound as a counter and as a gauge, to two objects
C2_Witness ==
    /\ last = Returned
    /\ \E n \in Names : /\ Bound("counter", n) /\ Bound("gauge", n)
                        /\ metrics["counter"][n] # metrics["gauge"][n]
                        /\ {metrics["counter"][n], metrics["gauge"][n]} \subseteq DOMAIN objects

\* the call raised KeyError and changed nothing
MissingRejected ==
    /\ last' = Raised("KeyError", "does not exist")
    /\ metrics' = metrics
    /\ objects' = objects
\* how a mutation call on this kind and name may end: for a name that is
\* not bound in the kind, with KeyError and nothing changed; otherwise not
\* with KeyError
MutationOutcome(kind, n) ==
    IF Bound(kind, n) THEN last'.exc # "KeyError" ELSE MissingRejected

\* C3: each of the five mutation operations, called with a name that is not in
\* the mapping of its own kind (whether or not another kind has the name),
\* raises KeyError and changes no mapping and no value; a mutation call
\* returns only for a name bound in its kind.
C3_MissingName ==
    \A n \in Names, l \in MutLabelInputs :
        /\ \A a \in AmountInputs :
            /\ ~ENABLED (increment_counter(n, a, l) /\ ~MutationOutcome("counter", n))
            /\ ~ENABLED (increment_gauge(n, a, l) /\ ~MutationOutcome("gauge", n))
            /\ ~ENABLED (decrement_gauge(n, a, l) /\ ~MutationOutcome("gauge", n))
        /\ \A v \in ValueInputs :
            /\ ~ENABLED (record_histogram(n, v, l) /\ ~MutationOutcome("histogram", n))
            /\ ~ENABLED (record_summary(n, v, l) /\ ~MutationOutcome("summary", n))

\* a mutation was just refused for a missing name while every name is a
\* gauge and nothing else: the call named a gauge's name under another kind
C3_Witness ==
    /\ last = Raised("KeyError", "does not exist")
    /\ DOMAIN metrics["gauge"] = Names
    /\ \A k \in Kinds \ {"gauge"} : DOMAIN metrics[k] = {}

HasNonNumeric(b) == ~b.none /\ \E i \in 1..Len(b.elems) : ~Numeric(b.elems[i])
HasNonNumericItem(o) == ~o.none /\ \E it \in o.items : ~Numeric(it[1]) \/ ~Numeric(it[2])
\* the call raised ValueError with this message, made no object and bound no name
InvalidRejected(kind, n, msg) ==
    /\ last' = Raised("ValueError", msg)
    /\ objects' = objects
    /\ metrics' = metrics
    /\ n \notin DOMAIN metrics'[kind]

\* C4: validation comes before creation: define_histogram with a non-numeric
\* bucket and define_summary with a non-numeric objective key or value, for a
\* name not defined before, raise ValueError, construct no metric object and
\* leave the name absent from the mapping.
C4_ValidationFirst ==
    \A n \in Names, l \in DefLabelInputs :
        /\ ~Bound("histogram", n) =>
              \A b \in BucketInputs :
                  HasNonNumeric(b) =>
                      ~ENABLED (define_histogram(n, b, l) /\
                                ~InvalidRejected("histogram", n, "Buckets must be a list of numbers."))
        /\ ~Bound("summary", n) =>
              \A o \in ObjectiveInputs :
                  HasNonNumericItem(o) =>
                      ~ENABLED (define_summary(n, o, l) /\
                                ~InvalidRejected("summary", n, "Objectives must be a dictionary of numbers."))

\* a histogram definition was just refused for its buckets, and there is no
\* metric object and no histogram name
C4_Witness ==
    /\ last = Raised("ValueError", "Buckets must be a list of numbers.")
    /\ constructed
    /\ metrics["histogram"] = EmptyMap
    /\ objects = EmptyMap

\* C5: the value of an unlabelled counter or gauge is what the successful
\* mutation calls addressed to it add up to, from 0: each increment adds its
\* amount (default 1), each decrement_gauge subtracts its amount; nothing
\* else (definitions, calls on other names or kinds, failed calls) changes it.
C5_SignedSum ==
    \A k \in {"counter", "gauge"} : \A n \in Names :
        (Bound(k, n) /\ Unlabelled(k, n)) =>
            /\ <<k, n, {}>> \in DOMAIN ledger
            /\ SeriesOf(k, n)[{}] = ledger[<<k, n, {}>>]

\* an unlabelled counter incremented by 1 and by 2 reads 3, next to a gauge
\* that went down
C5_Witness ==
    \/ \E n \in Names : /\ Bound("counter", n) /\ Unlabelled("counter", n)
                        /\ SeriesOf("counter", n)[{}] = 3
                        /\ ncalls = 4
    \/ \E n \in Names : /\ Bound("gauge", n) /\ Unlabelled("gauge", n)
                        /\ SeriesOf("gauge", n)[{}] = -1
                        /\ ncalls = 4

\* C6: the series of a labelled metric are independent: each holds what the
\* successful mutations addressed to its own label values add up to (zero
\* when it was only created), and a series exists for every label
\* combination that was mutated.
C6_LabelledSeries ==
    \A k \in Kinds : \A n \in Names :
        (Bound(k, n) /\ ~Unlabelled(k, n)) =>
            /\ \A key \in DOMAIN SeriesOf(k, n) :
                  SeriesOf(k, n)[key] =
                      IF <<k, n, key>> \in DOMAIN ledger THEN ledger[<<k, n, key>>] ELSE Zero(k)
            /\ \A e \in DOMAIN ledger :
                  (e[1] = k /\ e[2] = n) => e[3] \in DOMAIN SeriesOf(k, n)

\* a labelled counter whose GET series reads 1 and whose POST series reads 2
C6_Witness ==
    \E n \in Names :
        /\ Bound("counter", n)
        /\ DOMAIN SeriesOf("counter", n) = {{<<"method", "GET">>}, {<<"method", "POST">>}}
        /\ SeriesOf("counter", n)[{<<"method", "GET">>}] = 1
        /\ SeriesOf("counter", n)[{<<"method", "POST">>}] = 2

\* the call raised RuntimeError and changed nothing
StartRejected ==
    /\ last' = Raised("RuntimeError", "Failed to start HTTP server")
    /\ metrics' = metrics
    /\ objects' = objects
    /\ bound' = bound
    /\ port' = port

\* C7: initiate_http_server on a port that is held already, by another
\* listener or by an earlier successful call on this registry, raises
\* RuntimeError and changes no mapping and no value, so every later call
\* finds the registry as it was; a successful call leaves the port held.
C7_PortInUse ==
    /\ (constructed /\ port.val \in bound) =>
            ~ENABLED (initiate_http_server /\ ~StartRejected)
    /\ ~ENABLED (initiate_http_server /\ last' = Returned /\ port.val \notin bound')

\* the listener was just refused while a labelled counter holds an accumulated value
C7_Witness ==
    /\ last = Raised("RuntimeError", "Failed to start HTTP server")
    /\ \E n \in Names : /\ Bound("counter", n) /\ ~Unlabelled("counter", n)
                        /\ SeriesOf("counter", n) # EmptyMap
                        /\ \A key \in DOMAIN SeriesOf("counter", n) :
                                SeriesOf("counter", n)[key] >= 1

\* a positive integer, as Python counts them
PositiveInteger(p) == p.type \in {"int", "bool"} /\ p.val >= 1
\* how the construction with this port ends
Constructed(p) ==
    IF PositiveInteger(p)
    THEN /\ constructed'
         /\ port' = p
         /\ DOMAIN metrics' = Kinds
         /\ \A k \in Kinds : DOMAIN metrics'[k] = {}
         /\ last' = Returned
    ELSE /\ ~constructed'
         /\ last' = Raised("ValueError", "Port must be a positive integer.")
         /\ metrics' = metrics
         /\ port' = port

\* C8: the construction succeeds exactly for a positive integer port, and then
\* the registry holds that port and four empty mappings; for any other port it
\* raises ValueError and there is no registry and no state of one.
C8_Construction ==
    /\ ~constructed => (DOMAIN metrics = {} /\ objects = EmptyMap /\ port = PyNone)
    /\ constructed => PositiveInteger(port)
    /\ \A p \in PortInputs : ~ENABLED (Metrics_init(p) /\ ~Constructed(p))

\* the registry was just constructed on port 2 and its four mappings are empty
C8_Witness ==
    /\ constructed
    /\ ncalls = 1
    /\ port = PyInt(2)
    /\ \A k \in Kinds : metrics[k] = EmptyMap

\* a step keeps every binding, and changes the mappings only by binding one
\* new name, in one kind, to a metric object made in that step
AppendOnlyStep ==
    /\ \A k \in DOMAIN metrics : \A n \in DOMAIN metrics[k] :
            n \in DOMAIN metrics'[k] /\ metrics'[k][n] = metrics[k][n]
    /\ (constructed /\ metrics' # metrics) =>
            /\ Cardinality({k \in Kinds : metrics'[k] # metrics[k]}) = 1
            /\ \A k \in Kinds : Cardinality(DOMAIN metrics'[k]) <= Cardinality(DOMAIN metrics[k]) + 1
            /\ \A k \in Kinds : \A n \in DOMAIN metrics'[k] \ DOMAIN metrics[k] :
                    metrics'[k][n] \in DOMAIN objects' \ DOMAIN objects
            /\ last' = Returned
    /\ (constructed /\ DOMAIN objects' = DOMAIN objects) => metrics' = metrics

\* C9: the registry is append-only: once define_K(n, ...) has succeeded, n
\* stays in K's mapping, bound to the object that call made, whatever calls
\* follow; a mutation or a failed call changes no key set, and a definition
\* adds one name to its own kind's mapping and leaves the other three alone.
C9_AppendOnly == [][AppendOnlyStep]_vars

\* a labelled counter was defined and incremented, a gauge defined after it,
\* and then a call failed for a missing name: the counter is still bound, to
\* its object
C9_Witness ==
    /\ last = Raised("KeyError", "does not exist")
    /\ \E n \in Names : /\ Bound("counter", n) /\ ~Unlabelled("counter", n)
                        /\ {<<"method", "GET">>} \in DOMAIN SeriesOf("counter", n)
                        /\ SeriesOf("counter", n)[{<<"method", "GET">>}] >= 1
                        /\ metrics["counter"][n] = <<"counter", n, 1>>
    /\ metrics["gauge"] # EmptyMap

\* no two finished define_* calls for the same kind and name have both returned
AtMostOneSucceeds ==
    \A t, u \in Threads :
        (t # u /\ tpc[t] = "done" /\ tpc[u] = "done" /\
         targs[t].kind = targs[u].kind /\ targs[t].name = targs[u].name)
            => (tresult[t] # Returned \/ tresult[u] # Returned)
\* a bound name is not bound to another object
NoOverwrite ==
    \A k \in Kinds : \A n \in DOMAIN metrics[k] : metrics'[k][n] = metrics[k][n]

\* C10: when two threads call define_K(n, ...) for the same kind and the same
\* new name, at most one of the calls returns and the other raises ValueError,
\* and the object bound to n is never replaced by a second one.
C10_ConcurrentDefine == []AtMostOneSucceeds /\ [][NoOverwrite]_vars

=============================================================================
